---- MODULE Spec2Model ----
(***************************************************************************)
(* State-machine model of the estrus-log python service:                   *)
(*   - evf_sam_wrapper.py      load-once cache of the EVF-SAM2 model       *)
(*   - sam3_cloud.py, segment_sam3_cloud.py, compare_crop_eval.py          *)
(*                             HTTP clients of the SAM3 endpoint           *)
(*   - main.py                 FastAPI service (/embed, /classify)         *)
(*   - sam3_endpoint/handler.py, sam3_handler.py   EndpointHandler         *)
(*   - segment.py, segment_sam3.py, segment_sam3_cloud.py   batch cropping *)
(*   - split_data.py           parse_label and split_dataset               *)
(*   - ingest.py, reingest_modal.py, reingest_evf.py   ingestion into the  *)
(*                             reference_images table                      *)
(*   - segment_sam3.py, main.py, sam3_modal.py   the local segmentation    *)
(*                             functions and their crop rectangle          *)
(* Each program part has its own specification (SpecEvf, SpecCloud,        *)
(* SpecService, SpecHandler, SpecBatch, SpecSplit, SpecIngest, SpecLocal)  *)
(* over its own group of variables; the other groups stay idle.  Outcomes *)
(* of third-party calls (model loading, inference, HTTP, file I/O, the     *)
(* database) are inputs drawn with \E from the sets of outcomes the code   *)
(* tells apart.                                                            *)
(***************************************************************************)
EXTENDS Integers, Sequences, FiniteSets, TLC

VARIABLES
  \* ---- evf_sam_wrapper.py module globals + observation of the last call
  evf,                \* [model, tokenizer, device, dtype]  (0 = None, n = handle)
  evfBuilt,           \* [model, tokenizer]: constructions performed so far
  evfOk,              \* a load_evf_sam2 call has completed successfully
  evfLast,            \* what the last wrapper call did
  hasCuda,            \* torch.cuda.is_available()
  \* ---- main.py module globals
  SEGMENTATION_MODEL, USE_LINEAR_PROBE,
  bioclip,            \* [model, preprocess] loaded flags
  classifier_data,    \* TRUE = loaded, FALSE = None
  evf_loaded,
  sam2,               \* [model, processor] loaded flags
  owlv2,              \* [model, processor] loaded flags
  phase,              \* "created" | "started" | "failed"
  segLoadRaised,      \* the segmentation load raised inside load_models
  resp,               \* the last HTTP response (with what the handler did)
  \* ---- sam3_cloud.py / segment_sam3_cloud.py configuration (read from the env)
  SAM3_ENDPOINT_URL, HF_TOKEN,
  \* ---- HTTP clients: requests.post calls sent so far, and the last client call
  posts, cloudLast,
  \* ---- EndpointHandler.__call__: the request with the model's output, the return
  hReq, hRet,
  \* ---- batch cropping scripts (segment.py, segment_sam3.py, segment_sam3_cloud.py)
  bScript, bExt,      \* which script runs; segment_sam3.py's output extension
  bTree,              \* input directory: label folder -> its files
  bPc,                \* "start" | "labels" | "files" | "done" | "exit"
  bLabelsLeft, bLabel, bFilesLeft,   \* position of the two nested loops
  bOut,               \* output directory: the files it holds
  bWrites,            \* every save performed so far
  bLog,               \* every file the inner loop has handled, with what it met
  total, success,
  \* ---- split_data.py split_dataset
  sDirs, sTree,       \* source_dir: its subfolders; folder -> the files in it
  sRatio,             \* split_ratio as [num, den]
  sPc,                \* "start" | "copy" | "done" | "crashed" | "exit"
  sOutDirs,           \* the label folders that exist under train/ and test/
  files_by_label,     \* label -> set of <<folder, file name>>
  sLabelsLeft,        \* labels the copy loop has not reached yet
  sTrain, sTest,      \* copies made: [label, name, src]
  \* ---- ingestion scripts (ingest.py, reingest_modal.py, reingest_evf.py)
  iScript, iClear, iDryRun,          \* which script runs, --clear, --dry-run
  iDirs, iTree,       \* --dir: its subfolders; label folder -> its files
  iPc,                \* "start" | "labels" | "files" | "done" | "exit" | "crashed"
  iLabelsLeft, iLabel, iFilesLeft,   \* position of the two nested loops
  reference_images,   \* the rows of the Supabase table
  iOps,               \* the delete / insert requests issued so far, in order
  iLog,               \* every file the inner loop has handled, with what it met
  \* ---- one call of a local segmentation function: the call and its return
  gReq, gRet

evfVars == <<evf, evfBuilt, evfOk, evfLast, hasCuda>>
svcVars == <<SEGMENTATION_MODEL, USE_LINEAR_PROBE, bioclip, classifier_data,
             evf_loaded, sam2, owlv2, phase, segLoadRaised, resp>>
cfgVars == <<SAM3_ENDPOINT_URL, HF_TOKEN>>
cloudVars == <<posts, cloudLast>>
handlerVars == <<hReq, hRet>>
splitVars == <<sDirs, sTree, sRatio, sPc, sOutDirs, files_by_label, sLabelsLeft,
               sTrain, sTest>>
ingestVars == <<iScript, iClear, iDryRun, iDirs, iTree, iPc, iLabelsLeft, iLabel,
                iFilesLeft, reference_images, iOps, iLog>>
localVars == <<gReq, gRet>>
batchVars == <<bScript, bExt, bTree, bPc, bLabelsLeft, bLabel, bFilesLeft,
               bOut, bWrites, bLog, total, success>>

\* Frames: what an action of one program part leaves alone.
OnlyEvf     == UNCHANGED <<svcVars, cfgVars, cloudVars, handlerVars, batchVars, splitVars,
                           ingestVars, localVars>>
OnlyCloud   == UNCHANGED <<evfVars, svcVars, cfgVars, handlerVars, batchVars, splitVars,
                           ingestVars, localVars>>
OnlySvc     == UNCHANGED <<cfgVars, cloudLast, evfLast, hasCuda, handlerVars, batchVars,
                           splitVars, ingestVars, localVars>>
OnlyIngest  == UNCHANGED <<evfVars, svcVars, cfgVars, cloudVars, handlerVars, batchVars,
                           splitVars, localVars>>
OnlyHandler == UNCHANGED <<evfVars, svcVars, cfgVars, cloudVars, batchVars, splitVars,
                           ingestVars, localVars>>
OnlyBatch   == UNCHANGED <<evfVars, svcVars, cfgVars, cloudVars, handlerVars, splitVars,
                           ingestVars, localVars>>
OnlySplit   == UNCHANGED <<evfVars, svcVars, cfgVars, cloudVars, handlerVars, batchVars,
                           ingestVars, localVars>>
OnlyLocal   == UNCHANGED <<evfVars, svcVars, cfgVars, cloudVars, handlerVars, batchVars,
                           splitVars, ingestVars>>

None == 0

\* Largest number of EvfSam2Model / tokenizer constructions a run performs.
MaxLoads == 3

(***************************************************************************)
(* evf_sam_wrapper.py                                                      *)
(***************************************************************************)
Precisions == {"fp32", "fp16", "bf16", "other"}

\* Line 75-80: precision -> dtype, anything unknown is float32.
EvfDtype(precision) ==
  IF precision = "bf16" THEN "bfloat16"
  ELSE IF precision = "fp16" THEN "half" ELSE "float32"

\* Where one execution of the body of load_evf_sam2 can stop.
LoadOutcomes == {"ok", "import_raises", "tokenizer_raises", "model_raises",
                 "cuda_raises"}

EvfInit ==
  /\ evf = [model |-> None, tokenizer |-> None, device |-> "unset", dtype |-> "unset"]
  /\ evfBuilt = [model |-> 0, tokenizer |-> 0]
  /\ evfOk = FALSE
  /\ evfLast = [fn |-> "none"]
  /\ hasCuda \in BOOLEAN

\* load_evf_sam2 as a function of the globals g, the construction counters b,
\* the precision argument and the outcome of the third-party calls.
\* Result: the new globals and counters, whether it raised, what it returned.
LoadEvfCachedSkip(g, b, precision, outcome) == FALSE

LoadEvfCached(g, b, precision, outcome) == g.model # None

load_evf_sam2(g, b, precision, outcome) ==
  LET dev == IF hasCuda THEN "cuda" ELSE "cpu"
      g1  == [g EXCEPT !.device = dev, !.dtype = EvfDtype(precision)]
      tok == b.tokenizer + 1
      b2  == [b EXCEPT !.tokenizer = tok]
      g2  == [g1 EXCEPT !.tokenizer = tok]
      mdl == b.model + 1
      b3  == [b2 EXCEPT !.model = mdl]
      g3  == [g2 EXCEPT !.model = mdl]
  IN
  IF LoadEvfCached(g, b, precision, outcome)
  THEN [g |-> g, b |-> b, raised |-> FALSE, built |-> FALSE,
        ret |-> <<g.model, g.tokenizer>>]
  ELSE CASE outcome = "import_raises"    ->
              [g |-> g,  b |-> b,  raised |-> TRUE, built |-> FALSE, ret |-> <<None, None>>]
         [] outcome = "tokenizer_raises" ->
              [g |-> g1, b |-> b,  raised |-> TRUE, built |-> FALSE, ret |-> <<None, None>>]
         [] outcome = "model_raises"     ->
              [g |-> g2, b |-> b2, raised |-> TRUE, built |-> FALSE, ret |-> <<None, None>>]
         [] outcome = "cuda_raises" /\ hasCuda ->
              [g |-> g3, b |-> b3, raised |-> TRUE, built |-> TRUE, ret |-> <<None, None>>]
         [] OTHER ->
              [g |-> g3, b |-> b3, raised |-> FALSE, built |-> TRUE,
               ret |-> <<g3.model, g3.tokenizer>>]

\* What the inference part of a segmentation function can produce.
InferOutcomes == {"mask", "empty", "raises"}

\* segment_with_evf_sam2: the load (outside the try) and the guarded inference.
\* ret: "image" | "None" | "raised"; used: the handles the inference ran on.
segment_with_evf_sam2(g, b, loadOutcome, infer) ==
  LET ld == IF g.model = None
            THEN load_evf_sam2(g, b, "fp32", loadOutcome)
            ELSE [g |-> g, b |-> b, raised |-> FALSE, built |-> FALSE,
                  ret |-> <<g.model, g.tokenizer>>]
  IN
  IF ld.raised
  THEN [g |-> ld.g, b |-> ld.b, ret |-> "raised", used |-> <<None, None>>,
        loadOk |-> FALSE]
  ELSE [g |-> ld.g, b |-> ld.b,
        ret |-> IF infer = "mask" THEN "image" ELSE "None",
        used |-> <<ld.g.model, ld.g.tokenizer>>,
        loadOk |-> g.model = None]

\* A call of load_evf_sam2 by any client, with any precision.
CallLoadEvf ==
  /\ evfBuilt.model < MaxLoads /\ evfBuilt.tokenizer < MaxLoads
  /\ \E precision \in Precisions, outcome \in LoadOutcomes :
       LET r == load_evf_sam2(evf, evfBuilt, precision, outcome) IN
       /\ evf' = r.g
       /\ evfBuilt' = r.b
       /\ evfOk' = (evfOk \/ (~r.raised /\ r.built))
       /\ evfLast' = [fn |-> "load", raised |-> r.raised, ret |-> r.ret,
                      precision |-> precision]
  /\ UNCHANGED hasCuda /\ OnlyEvf

\* A call of segment_with_evf_sam2 by any client.
CallSegmentEvf ==
  /\ evfBuilt.model < MaxLoads /\ evfBuilt.tokenizer < MaxLoads
  /\ \E outcome \in LoadOutcomes, infer \in InferOutcomes :
       LET r == segment_with_evf_sam2(evf, evfBuilt, outcome, infer) IN
       /\ evf' = r.g
       /\ evfBuilt' = r.b
       /\ evfOk' = (evfOk \/ r.loadOk)
       /\ evfLast' = [fn |-> "segment", raised |-> r.ret = "raised", ret |-> r.used,
                      precision |-> "fp32"]
  /\ UNCHANGED hasCuda /\ OnlyEvf

(***************************************************************************)
(* sam3_cloud.py, segment_sam3_cloud.py, compare_crop_eval.py:             *)
(* the HTTP clients of the SAM3 endpoint.                                  *)
(***************************************************************************)
\* Largest number of requests.post calls a run of the clients sends.
MaxPosts == 3

\* What the endpoint answers: the status codes the clients tell apart (500
\* stands for every other status) and the shapes of body they tell apart.
Statuses == {200, 503, 404, 500}
Bodies == {"image",          \* bytes PIL opens as an image
           "json_image",     \* JSON object with a decodable "image"
           "json_badimage",  \* JSON object whose "image" does not decode
           "json_noimage",   \* JSON object without "image"
           "json_nondict",   \* JSON that is no object (a number)
           "garbage"}        \* neither an image nor JSON

\* What one requests.post can do, and what can happen before it is called.
NetOutcomes ==
  [kind : {"encode_raises", "timeout", "connection_error", "other_exception"}]
  \cup [kind : {"response"}, status : Statuses, body : Bodies]

Pair(img, err) == [img |-> img, err |-> err]

\* sam3_cloud.py 92-108: a 200 response.
ParseOk200Swallow(body) ==
  CASE body = "image"        -> Pair("image", "None")
    [] body = "json_image"   -> Pair("image", "None")
    [] body = "json_noimage" -> Pair("None", "None")
    [] OTHER                 -> Pair("None", "Failed to parse response")

ParseOk200(body) ==
  CASE body = "image"        -> Pair("image", "None")
    [] body = "json_image"   -> Pair("image", "None")
    [] body = "json_noimage" -> Pair("None", "Unexpected response format")
    [] OTHER                 -> Pair("None", "Failed to parse response")

\* sam3_cloud.py 110-121: every other status.
ParseError(status, body) ==
  CASE status = 503 -> Pair("None", "SAM3 endpoint is still initializing")
    [] status = 404 -> Pair("None", "No segmentation mask found for the given prompt")
    [] OTHER ->
         IF body \in {"json_image", "json_badimage", "json_noimage"}
         THEN Pair("None", "SAM3 error (status): error")
         ELSE Pair("None", "SAM3 error (status): text")

\* The number of requests.post calls one client call makes on outcome net.
SendOnceRetry(net) ==
  IF net.kind = "encode_raises" THEN 0
  ELSE IF net.kind = "response" /\ net.status = 200 THEN 1 ELSE 2

SendOnce(net) == IF net.kind = "encode_raises" THEN 0 ELSE 1

\* sam3_cloud.py 39-130.  Result: the returned pair, whether an exception
\* left the function, and the number of POSTs sent.
segment_with_sam3_cloud(url, token, net) ==
  IF ~url THEN [ret |-> Pair("None", "SAM3_ENDPOINT_URL not configured"),
                raised |-> FALSE, sent |-> 0]
  ELSE IF ~token THEN [ret |-> Pair("None", "HF_TOKEN not configured"),
                       raised |-> FALSE, sent |-> 0]
  ELSE
    [raised |-> FALSE, sent |-> SendOnce(net),
     ret |->
       CASE net.kind = "timeout"          -> Pair("None", "SAM3 request timed out")
         [] net.kind = "connection_error" -> Pair("None", "Failed to connect to SAM3 endpoint")
         [] net.kind \in {"encode_raises", "other_exception"}
                                          -> Pair("None", "SAM3 request failed")
         [] OTHER -> IF net.status = 200 THEN ParseOk200(net.body)
                     ELSE ParseError(net.status, net.body)]

\* segment_sam3_cloud.py 38-69.  ret: "results" | "raised".
query_endpoint(url, net) ==
  IF ~url THEN [ret |-> "raised", sent |-> 0]
  ELSE [sent |-> SendOnce(net),
        ret |-> IF /\ net.kind = "response" /\ net.status = 200
                   /\ net.body \notin {"image", "garbage"}
                THEN "results" ELSE "raised"]

\* What the JSON of a 200 answer holds, as segment_with_endpoint reads it.
ResultShapes == {"empty_list", "error_entry", "box_only", "mask_and_box",
                 "mask_only", "mask_only_blank", "bad_mask", "not_a_list"}

\* segment_sam3_cloud.py 72-143.  ret: "image" | "None".
segment_with_endpoint(url, net, shape) ==
  LET q == query_endpoint(url, net) IN
  [sent |-> q.sent, raised |-> FALSE,
   ret |-> IF q.ret = "raised" THEN "None"
           ELSE IF shape \in {"box_only", "mask_and_box", "mask_only"}
                THEN "image" ELSE "None"]

\* compare_crop_eval.py 50-65.  ret: "cropped" | "original".
crop_with_sam3(net) ==
  [sent |-> SendOnce(net), raised |-> FALSE,
   ret |-> IF /\ net.kind = "response" /\ net.status = 200
              /\ net.body = "json_image"
           THEN "cropped" ELSE "original"]

CloudInit ==
  /\ SAM3_ENDPOINT_URL \in BOOLEAN /\ HF_TOKEN \in BOOLEAN
  /\ posts = 0 /\ cloudLast = [fn |-> "none"]

CallSam3Cloud ==
  /\ posts < MaxPosts
  /\ \E net \in NetOutcomes :
       LET r == segment_with_sam3_cloud(SAM3_ENDPOINT_URL, HF_TOKEN, net) IN
       /\ posts' = posts + r.sent
       /\ cloudLast' = [fn |-> "segment_with_sam3_cloud", net |-> net,
                        ret |-> r.ret, raised |-> r.raised, sent |-> r.sent]
  /\ OnlyCloud

CallSegmentWithEndpoint ==
  /\ posts < MaxPosts
  /\ \E net \in NetOutcomes, shape \in ResultShapes :
       LET r == segment_with_endpoint(SAM3_ENDPOINT_URL, net, shape) IN
       /\ posts' = posts + r.sent
       /\ cloudLast' = [fn |-> "segment_with_endpoint", net |-> net,
                        ret |-> r.ret, raised |-> r.raised, sent |-> r.sent]
  /\ OnlyCloud

CallCropWithSam3 ==
  /\ posts < MaxPosts
  /\ \E net \in NetOutcomes :
       LET r == crop_with_sam3(net) IN
       /\ posts' = posts + r.sent
       /\ cloudLast' = [fn |-> "crop_with_sam3", net |-> net,
                        ret |-> r.ret, raised |-> r.raised, sent |-> r.sent]
  /\ OnlyCloud

(***************************************************************************)
(* main.py: the FastAPI service                                            *)
(***************************************************************************)
SegModels == {"sam3_cloud", "evf", "sam2", "owlv2", "other"}

\* Where loading a transformers processor + model pair can stop
\* (load_sam2 85-94, load_owlv2 147-156).
PairLoadOutcomes == {"ok", "import_raises", "processor_raises", "model_raises"}

\* The globals after load_sam2 / load_owlv2 stopped at outcome.
LoadPair(m, outcome) ==
  CASE outcome = "import_raises"    -> m
    [] outcome = "processor_raises" -> m
    [] outcome = "model_raises"     -> [m EXCEPT !.processor = TRUE]
    [] OTHER                        -> [model |-> TRUE, processor |-> TRUE]

SvcInit ==
  /\ SEGMENTATION_MODEL \in SegModels /\ USE_LINEAR_PROBE \in BOOLEAN
  /\ bioclip = [model |-> FALSE, preprocess |-> FALSE]
  /\ classifier_data = FALSE /\ evf_loaded = FALSE
  /\ sam2 = [model |-> FALSE, processor |-> FALSE]
  /\ owlv2 = [model |-> FALSE, processor |-> FALSE]
  /\ phase = "created" /\ segLoadRaised = FALSE
  /\ resp = [endpoint |-> "none"]

\* main.py 252-268: does the exception of the segmentation load stay inside
\* load_models?
SegLoadCaught(raised) == raised

\* main.py 217-268, the startup event.
load_models ==
  /\ phase = "created"
  /\ \E bio \in {"ok", "create_raises", "eval_raises"},
        clf \in {"missing", "ok", "raises"},
        ld \in LoadOutcomes, pl \in PairLoadOutcomes :
       LET bioclip1 == IF bio = "create_raises" THEN bioclip
                       ELSE [model |-> TRUE, preprocess |-> TRUE]
           e == IF SEGMENTATION_MODEL = "evf"
                THEN load_evf_sam2(evf, evfBuilt, "fp32", ld)
                ELSE [g |-> evf, b |-> evfBuilt, raised |-> FALSE, built |-> FALSE]
           segRaised ==
             CASE SEGMENTATION_MODEL = "evf" -> e.raised
               [] SEGMENTATION_MODEL \in {"sam2", "owlv2"} -> pl # "ok"
               [] OTHER -> FALSE
       IN
       IF bio # "ok"
       THEN /\ bioclip' = bioclip1
            /\ phase' = "failed"
            /\ UNCHANGED <<classifier_data, evf_loaded, sam2, owlv2, segLoadRaised,
                           evf, evfBuilt, evfOk>>
       ELSE /\ bioclip' = bioclip1
            /\ classifier_data' = (clf = "ok")
            /\ evf' = e.g /\ evfBuilt' = e.b
            /\ evfOk' = (evfOk \/ (~e.raised /\ e.built))
            /\ evf_loaded' = (SEGMENTATION_MODEL = "evf" /\ ~e.raised)
            /\ sam2' = IF SEGMENTATION_MODEL = "sam2" THEN LoadPair(sam2, pl) ELSE sam2
            /\ owlv2' = IF SEGMENTATION_MODEL = "owlv2" THEN LoadPair(owlv2, pl) ELSE owlv2
            /\ segLoadRaised' = segRaised
            /\ phase' = IF segRaised /\ ~SegLoadCaught(segRaised)
                        THEN "failed" ELSE "started"
  /\ UNCHANGED <<SEGMENTATION_MODEL, USE_LINEAR_PROBE, resp, posts>>
  /\ OnlySvc

\* What the steps of one request meet: the first step other than segmentation
\* that raises (if any) and the kind of exception raised, and what the
\* configured segmenter meets.
RequestEnvs ==
  [fails : {"none", "decode", "embedding", "classifier"},
   exc : {"ValueError", "Exception"},
   net   : IF SEGMENTATION_MODEL = "sam3_cloud" THEN NetOutcomes
           ELSE {[kind |-> "timeout"]},
   load  : IF SEGMENTATION_MODEL = "evf" THEN LoadOutcomes ELSE {"ok"},
   infer : IF SEGMENTATION_MODEL \in {"evf", "sam2", "owlv2"}
           THEN InferOutcomes ELSE {"mask"}]

\* main.py 97-144 / 159-185: model missing -> None; any exception -> None.
segment_with_pair(m, infer) ==
  IF ~m.model \/ ~m.processor THEN "None"
  ELSE IF infer = "mask" THEN "image" ELSE "None"

\* main.py 195-214.  ret: "image" | "None" | "raised".
segment_image(env) ==
  LET same == [g |-> evf, b |-> evfBuilt, loadOk |-> FALSE, sent |-> 0] IN
  CASE SEGMENTATION_MODEL = "sam3_cloud" ->
         LET r == segment_with_sam3_cloud(SAM3_ENDPOINT_URL, HF_TOKEN, env.net) IN
         [same EXCEPT !.sent = r.sent] @@ [ret |-> r.ret.img]
    [] SEGMENTATION_MODEL = "evf" ->
         LET r == segment_with_evf_sam2(evf, evfBuilt, env.load, env.infer) IN
         [g |-> r.g, b |-> r.b, loadOk |-> r.loadOk, sent |-> 0, ret |-> r.ret]
    [] SEGMENTATION_MODEL = "sam2" ->
         same @@ [ret |-> segment_with_pair(sam2, env.infer)]
    [] SEGMENTATION_MODEL = "owlv2" ->
         same @@ [ret |-> segment_with_pair(owlv2, env.infer)]
    [] OTHER -> same @@ [ret |-> "None"]

\* The globals a handler reads on entry, kept with its response.
Guards == [bioclip |-> bioclip.model /\ bioclip.preprocess,
           lp |-> USE_LINEAR_PROBE, clf |-> classifier_data, phase |-> phase]

Refused(endpoint, status, detail) ==
  [endpoint |-> endpoint, pre |-> Guards, status |-> status, detail |-> detail,
   fileRead |-> FALSE, segCalled |-> FALSE, segRet |-> "n/a",
   embedCalled |-> FALSE, embedInput |-> "n/a", cropped |-> "n/a",
   cause |-> "guard"]

\* main.py 327-328: the guard of /embed; 0 = pass.
EmbedGuard == IF ~bioclip.model \/ ~bioclip.preprocess THEN 503 ELSE 0

\* main.py 350-363: the guards of /classify, in order; status 0 = pass.
ClassifyGuardClassifierFirst ==
  IF ~bioclip.model \/ ~bioclip.preprocess
  THEN [status |-> 503, detail |-> "BioCLIP model not initialized"]
  ELSE IF ~classifier_data
  THEN [status |-> 503, detail |-> "Classifier not loaded"]
  ELSE IF ~USE_LINEAR_PROBE
  THEN [status |-> 400, detail |-> "Linear Probe disabled"]
  ELSE [status |-> 0, detail |-> ""]

ClassifyGuard ==
  IF ~bioclip.model \/ ~bioclip.preprocess
  THEN [status |-> 503, detail |-> "BioCLIP model not initialized"]
  ELSE IF ~USE_LINEAR_PROBE
  THEN [status |-> 400, detail |-> "Linear Probe disabled"]
  ELSE IF ~classifier_data
  THEN [status |-> 503, detail |-> "Classifier not loaded"]
  ELSE [status |-> 0, detail |-> ""]

\* The image handed to get_bioclip_embedding (335-336, 370-372).
EmbedInputAlwaysCrop(segRet) == "cropped"

EmbedInput(segRet) == IF segRet = "image" THEN "cropped" ELSE "original"

\* main.py 370: was_cropped.
WasCropped(segRet) == IF segRet = "image" THEN "true" ELSE "false"

\* The try-block shared by both handlers (330-344, 365-387): the response for
\* segmentation result seg (of segment_image) under env.
Handle(endpoint, env, seg) ==
  LET failStatus == IF endpoint = "classify" /\ env.exc = "ValueError"
                    THEN 503 ELSE 500
      base == [endpoint |-> endpoint, pre |-> Guards, status |-> 200,
               detail |-> "", fileRead |-> TRUE, segCalled |-> TRUE,
               segRet |-> seg.ret, embedCalled |-> TRUE,
               embedInput |-> EmbedInput(seg.ret),
               cropped |-> IF endpoint = "classify" THEN WasCropped(seg.ret)
                           ELSE "n/a",
               cause |-> "none"]
      fail(r, cause) == [r EXCEPT !.status = failStatus, !.cropped = "n/a",
                                  !.detail = "Error processing image",
                                  !.cause = cause]
  IN
  IF env.fails = "decode"
  THEN fail([base EXCEPT !.segCalled = FALSE, !.segRet = "n/a",
                         !.embedCalled = FALSE, !.embedInput = "n/a"], "decode")
  ELSE IF seg.ret = "raised"
  THEN fail([base EXCEPT !.embedCalled = FALSE, !.embedInput = "n/a"],
            "segmentation")
  ELSE IF env.fails = "embedding" THEN fail(base, "embedding")
  ELSE IF endpoint = "classify" /\ env.fails = "classifier"
  THEN fail(base, "classifier")
  ELSE base

\* The state a request leaves behind: segment_image runs only when the file
\* decoded.
Serve(endpoint, env) ==
  LET seg == segment_image(env)
      ran == env.fails # "decode"
  IN
  /\ resp' = Handle(endpoint, env, seg)
  /\ evf' = IF ran THEN seg.g ELSE evf
  /\ evfBuilt' = IF ran THEN seg.b ELSE evfBuilt
  /\ evfOk' = (evfOk \/ (ran /\ seg.loadOk))
  /\ posts' = IF ran THEN posts + seg.sent ELSE posts

RequestAllowed ==
  /\ phase \in {"created", "started"}
  /\ posts < MaxPosts
  /\ evfBuilt.model < MaxLoads /\ evfBuilt.tokenizer < MaxLoads

\* main.py 324-344: POST /embed.
generate_embedding ==
  /\ RequestAllowed
  /\ IF EmbedGuard # 0
     THEN /\ resp' = Refused("embed", EmbedGuard, "BioCLIP model not initialized")
          /\ UNCHANGED <<evf, evfBuilt, evfOk, posts>>
     ELSE \E env \in RequestEnvs : Serve("embed", env)
  /\ UNCHANGED <<SEGMENTATION_MODEL, USE_LINEAR_PROBE, bioclip, classifier_data,
                 evf_loaded, sam2, owlv2, phase, segLoadRaised>>
  /\ OnlySvc

\* main.py 347-387: POST /classify.
classify_image ==
  /\ RequestAllowed
  /\ IF ClassifyGuard.status # 0
     THEN /\ resp' = Refused("classify", ClassifyGuard.status, ClassifyGuard.detail)
          /\ UNCHANGED <<evf, evfBuilt, evfOk, posts>>
     ELSE \E env \in RequestEnvs : Serve("classify", env)
  /\ UNCHANGED <<SEGMENTATION_MODEL, USE_LINEAR_PROBE, bioclip, classifier_data,
                 evf_loaded, sam2, owlv2, phase, segLoadRaised>>
  /\ OnlySvc

(***************************************************************************)
(* sam3_endpoint/handler.py and sam3_handler.py: EndpointHandler.__call__  *)
(* The two files differ in the default threshold and in sam3_handler.py's  *)
(* return_mask option.                                                     *)
(***************************************************************************)
\* Largest number of queries (scores and masks) the model yields.
MaxQueries == 2
\* Size of the image the masks are resized to.
ImageW == 2
ImageH == 2

\* Scores (sigmoid outputs, as levels) and the thresholds they are compared to.
ScoreLevels == {1, 2, 3}
Thresholds == {2, 4}

\* Masks after `mask > 0`: the sets of positive pixels <<x, y>> of the image.
Pixels == (0..(ImageW - 1)) \X (0..(ImageH - 1))
Masks == {m \in {{}, {<<0, 0>>}, {<<1, 1>>}, {<<1, 0>>, <<0, 1>>}} : m \subseteq Pixels}

\* What the model yields for one image.
ModelOutputs(n) ==
  UNION {[scores : [1..k -> ScoreLevels], masks : [1..k -> Masks]] : k \in 0..n}

\* `inputs` as the isinstance chain sees it; "missing_key" is a request
\* without "inputs" (the request dict itself is taken), "data_not_dict" a
\* request that has no .get.
InputKinds == {"str", "bytes", "pil", "missing_key", "other_type", "data_not_dict"}
Decodable == {"str", "bytes", "pil"}

\* The step of the try-block that raises, if any.
RaisePoints == {"none", "decode", "inference", "encode"}

HandlerRequests ==
  [variant : {"sam3_endpoint/handler.py"}, return_mask : {TRUE},
   inputs : InputKinds, threshold : Thresholds, raises : RaisePoints,
   out : ModelOutputs(MaxQueries)]
  \cup
  [variant : {"sam3_handler.py"}, return_mask : BOOLEAN,
   inputs : Decodable, threshold : Thresholds, raises : RaisePoints,
   out : ModelOutputs(MaxQueries)]

SetMin(S) == CHOOSE m \in S : \A x \in S : m <= x
SetMax(S) == CHOOSE m \in S : \A x \in S : m >= x

\* handler.py 103-110: rows / cols with a positive pixel, first and last.
BoxOf(mask) ==
  LET cols == {p[1] : p \in mask}
      rows == {p[2] : p \in mask}
  IN [xmin |-> SetMin(cols), ymin |-> SetMin(rows),
      xmax |-> SetMax(cols), ymax |-> SetMax(rows)]

\* handler.py 118-128: one result; idx names the query it comes from.
Result(out, idx, return_mask) ==
  [score |-> out.scores[idx], idx |-> idx, box |-> BoxOf(out.masks[idx]),
   mask |-> IF return_mask THEN out.masks[idx] ELSE {}, has_mask |-> return_mask]

\* handler.py 86-128: the threshold loop, from query idx on.
RECURSIVE Loop(_, _, _, _)
Loop(out, idx, threshold, return_mask) ==
  IF idx > Len(out.scores) THEN <<>>
  ELSE LET rest == Loop(out, idx + 1, threshold, return_mask) IN
       IF out.scores[idx] < threshold THEN rest
       ELSE IF out.masks[idx] = {} THEN rest
       ELSE <<Result(out, idx, return_mask)>> \o rest

\* handler.py 131: list.sort(key=score, reverse=True), which is stable.
KeepOrder(rs) == rs

RECURSIVE InsertDesc(_, _)
InsertDesc(sorted, r) ==
  IF sorted = <<>> THEN <<r>>
  ELSE IF Head(sorted).score >= r.score
       THEN <<Head(sorted)>> \o InsertDesc(Tail(sorted), r)
       ELSE <<r>> \o sorted

RECURSIVE SortDesc(_)
SortDesc(rs) ==
  IF rs = <<>> THEN <<>>
  ELSE InsertDesc(SortDesc(SubSeq(rs, 1, Len(rs) - 1)), rs[Len(rs)])

\* numpy argmax: the first index of the largest score.
ArgMax(scores) ==
  CHOOSE i \in 1..Len(scores) :
    /\ \A j \in 1..Len(scores) : scores[j] <= scores[i]
    /\ \A j \in 1..(i - 1) : scores[j] < scores[i]

\* handler.py 133-168: the fallback to the best query.
Fallback(out, results, return_mask) ==
  IF results = <<>> /\ Len(out.scores) > 0
  THEN LET best == ArgMax(out.scores) IN
       IF out.masks[best] # {} THEN <<Result(out, best, return_mask)>>
       ELSE results
  ELSE results

\* The results the try-block computes when nothing raises (84-170).
Segments(req) ==
  Fallback(req.out,
           SortDesc(Loop(req.out, 1, req.threshold, req.return_mask)),
           req.return_mask)

\* Does an exception leave the try-block?  data.get on a non-dict, the image
\* decoding, the processor or the model, or the encoding of a result's mask
\* (reached only when a result is built and its mask is returned).
Raises(req) ==
  \/ req.inputs = "data_not_dict"
  \/ /\ req.inputs \in Decodable
     /\ \/ req.raises \in {"decode", "inference"}
        \/ /\ req.raises = "encode" /\ req.return_mask
           /\ Segments(req) # <<>>

ErrorEntry(traceback) == [error |-> TRUE, traceback |-> traceback]

\* handler.py 172-174: the except clause.
OnExceptionPropagate(req) == [raised |-> TRUE, list |-> <<>>]

OnException(req) == [raised |-> FALSE, list |-> <<ErrorEntry(TRUE)>>]

\* EndpointHandler.__call__ (handler.py 33-174, sam3_handler.py 52-201).
EndpointHandlerCall(req) ==
  IF Raises(req) THEN OnException(req)
  ELSE IF req.inputs \notin Decodable
       THEN [raised |-> FALSE, list |-> <<ErrorEntry(FALSE)>>]
       ELSE [raised |-> FALSE, list |-> Segments(req)]

HandlerInit ==
  /\ hReq \in HandlerRequests
  /\ hRet = [state |-> "pending"]

HandlerIdle ==
  /\ hReq = [variant |-> "none"]
  /\ hRet = [state |-> "pending"]

Call ==
  /\ hRet.state = "pending"
  /\ hRet' = [state |-> "returned"] @@ EndpointHandlerCall(hReq)
  /\ UNCHANGED hReq
  /\ OnlyHandler

(***************************************************************************)
(* segment.py crop_genitals, segment_sam3.py main, segment_sam3_cloud.py   *)
(* main: the batch cropping loops                                          *)
(***************************************************************************)
\* Largest number of directory entries in the label folders of the input.
MaxFiles == 3

Scripts == {"segment.py", "segment_sam3.py", "segment_sam3_cloud.py"}
BatchLabels == {"ESTRUS", "DIESTRUS"}

\* File names as <<stem, extension>>.
BatchNames == {<<"a", "jpg">>, <<"a", "png">>, <<"b", "webp">>, <<"n", "txt">>}

FileName(stem, ext) == <<stem, ext>>

\* segment.py 27/37, segment_sam3.py 286-287, segment_sam3_cloud.py 238-239.
IsImageFile(script, f) ==
  IF script = "segment.py" THEN f[2] \in {"jpg", "jpeg", "png", "webp"}
  ELSE f[2] \in {"jpg", "jpeg", "png"}

Sum2(t) == Cardinality(t["ESTRUS"]) + Cardinality(t["DIESTRUS"])

BatchTrees == {t \in [BatchLabels -> SUBSET BatchNames] : Sum2(t) <= MaxFiles}

\* What handling one file meets: Image.open, the segmentation (only in
\* segment.py can it raise into the loop: segment_with_sam3 and
\* segment_with_endpoint catch everything and return None), the save.
FileOutcomes(script) ==
  {[open |-> "raises", seg |-> "n/a", save |-> "n/a"]}
  \cup [open : {"ok"}, seg : {"ok", "none"}, save : {"ok", "raises"}]
  \cup (IF script = "segment.py"
        THEN {[open |-> "ok", seg |-> "raises", save |-> "n/a"]} ELSE {})

\* The body of the try raised (and the except clause printed it).
BodyRaised(o) == o.open = "raises" \/ o.seg = "raises" \/ o.save = "raises"

\* segment_sam3.py 302-309: stem + extension of the mode for a result, the
\* input's own name for the original; the other two scripts keep the name.
OutputName(script, ext, f, o) ==
  IF script = "segment_sam3.py" /\ o.seg = "ok" THEN FileName(f[1], ext) ELSE f

\* The saves of one loop body (segment.py 63-81, segment_sam3.py 304-309,
\* segment_sam3_cloud.py 253-258).
SavesOnlyResults(script, ext, label, f, o) ==
  IF BodyRaised(o) \/ o.seg = "none" THEN {}
  ELSE {[label |-> label, name |-> OutputName(script, ext, f, o), src |-> f,
         kind |-> "segmented"]}

Saves(script, ext, label, f, o) ==
  IF BodyRaised(o) THEN {}
  ELSE {[label |-> label, name |-> OutputName(script, ext, f, o), src |-> f,
         kind |-> IF o.seg = "ok" THEN "segmented" ELSE "original"]}

\* A directory after the saves ws: a save replaces a file of the same name.
WriteAll(dir, ws) ==
  {x \in dir : \A w \in ws : ~(x.label = w.label /\ x.name = w.name)} \cup ws

BatchInit ==
  /\ bScript \in Scripts
  /\ bExt \in {"jpg", "png"}
  /\ bScript # "segment_sam3.py" => bExt = "jpg"
  /\ bTree \in BatchTrees
  /\ bPc = "start"
  /\ bLabelsLeft = {} /\ bLabel = "none" /\ bFilesLeft = {}
  /\ bOut = {} /\ bWrites = {} /\ bLog = {}
  /\ total = 0 /\ success = 0

BatchIdle ==
  /\ bScript = "none" /\ bExt = "jpg"
  /\ bTree = [l \in BatchLabels |-> {}]
  /\ bPc = "exit"
  /\ bLabelsLeft = {} /\ bLabel = "none" /\ bFilesLeft = {}
  /\ bOut = {} /\ bWrites = {} /\ bLog = {}
  /\ total = 0 /\ success = 0

\* Before the loops: the model is loaded / the settings are checked; the
\* script ends there when that fails (segment.py 14-24, segment_sam3.py
\* 255-258, segment_sam3_cloud.py 191-209).
BatchStart ==
  /\ bPc = "start"
  /\ \E ready \in BOOLEAN :
       /\ bPc' = IF ready THEN "labels" ELSE "exit"
       /\ bLabelsLeft' = IF ready THEN BatchLabels ELSE {}
  /\ UNCHANGED <<bScript, bExt, bTree, bLabel, bFilesLeft, bOut, bWrites, bLog,
                 total, success>>
  /\ OnlyBatch

\* The outer loop takes the next label folder and lists its image files.
EnterLabel ==
  /\ bPc = "labels" /\ bLabelsLeft # {}
  /\ \E label \in bLabelsLeft :
       /\ bLabel' = label
       /\ bLabelsLeft' = bLabelsLeft \ {label}
       /\ bFilesLeft' = {f \in bTree[label] : IsImageFile(bScript, f)}
  /\ bPc' = "files"
  /\ UNCHANGED <<bScript, bExt, bTree, bOut, bWrites, bLog, total, success>>
  /\ OnlyBatch

\* One iteration of the inner loop (segment.py 41-84, segment_sam3.py
\* 291-312, segment_sam3_cloud.py 243-261).
ProcessFile ==
  /\ bPc = "files" /\ bFilesLeft # {}
  /\ \E f \in bFilesLeft, o \in FileOutcomes(bScript) :
       LET ws == Saves(bScript, bExt, bLabel, f, o) IN
       /\ bFilesLeft' = bFilesLeft \ {f}
       /\ bWrites' = bWrites \cup ws
       /\ bOut' = WriteAll(bOut, ws)
       /\ bLog' = bLog \cup {[label |-> bLabel, file |-> f, outcome |-> o]}
       /\ total' = IF bScript = "segment.py" THEN total ELSE total + 1
       /\ success' = IF bScript # "segment.py" /\ o.seg = "ok"
                     THEN success + 1 ELSE success
  /\ UNCHANGED <<bScript, bExt, bTree, bPc, bLabelsLeft, bLabel>>
  /\ OnlyBatch

\* The inner loop is exhausted: back to the outer loop.
LeaveLabel ==
  /\ bPc = "files" /\ bFilesLeft = {}
  /\ bPc' = "labels" /\ bLabel' = "none"
  /\ UNCHANGED <<bScript, bExt, bTree, bLabelsLeft, bFilesLeft, bOut, bWrites,
                 bLog, total, success>>
  /\ OnlyBatch

\* The outer loop is exhausted: the summary is printed.
BatchEnd ==
  /\ bPc = "labels" /\ bLabelsLeft = {}
  /\ bPc' = "done"
  /\ UNCHANGED <<bScript, bExt, bTree, bLabelsLeft, bLabel, bFilesLeft, bOut,
                 bWrites, bLog, total, success>>
  /\ OnlyBatch

(***************************************************************************)
(* split_data.py: parse_label and split_dataset                            *)
(***************************************************************************)
\* Largest number of files in source_dir and its subfolders together.
MaxSplitFiles == 3

\* File names as the words and separators they are made of.
SplitNames == {<<"1", "_", "METESTRUS", ".", "jpg">>,
               <<"estrus", "_", "2", ".", "png">>,
               <<"2", "_", "ESTRUS", ".", "jpg">>,
               <<"x", "_", "proesttrus", "_", "DIESTRUS", ".", "jpg">>,
               <<"mouse", ".", "jpeg">>,
               <<"notes", ".", "txt">>}

\* str.upper() on the words that occur.
Upper(word) ==
  CASE word = "estrus"     -> "ESTRUS"
    [] word = "Estrus"     -> "ESTRUS"
    [] word = "proesttrus" -> "PROESTTRUS"
    [] word = "mouse"      -> "MOUSE"
    [] word = "notes"      -> "NOTES"
    [] word = "x"          -> "X"
    [] word = "jpg"        -> "JPG"
    [] word = "jpeg"       -> "JPEG"
    [] word = "png"        -> "PNG"
    [] word = "txt"        -> "TXT"
    [] OTHER               -> word

\* filename.replace(".", "_").split("_"): the words between the separators.
RECURSIVE SplitParts(_)
SplitParts(name) ==
  IF name = <<>> THEN <<>>
  ELSE IF Head(name) \in {"_", "."} THEN SplitParts(Tail(name))
       ELSE <<Head(name)>> \o SplitParts(Tail(name))

valid_stages == {"PROESTRUS", "ESTRUS", "METESTRUS", "DIESTRUS"}

\* split_data.py 13-21: the first part that is a stage.
RECURSIVE LastStage(_)
LastStage(parts) ==
  IF parts = <<>> THEN "UNKNOWN"
  ELSE IF LastStage(Tail(parts)) # "UNKNOWN" THEN LastStage(Tail(parts))
       ELSE IF Upper(Head(parts)) \in {"PROESTRUS", "ESTRUS", "METESTRUS", "DIESTRUS"}
            THEN Upper(Head(parts)) ELSE "UNKNOWN"

RECURSIVE FirstStage(_)
FirstStage(parts) ==
  IF parts = <<>> THEN "UNKNOWN"
  ELSE LET upper_part == IF Upper(Head(parts)) = "PROESTTRUS" THEN "PROESTRUS"
                         ELSE Upper(Head(parts))
       IN IF upper_part \in valid_stages THEN upper_part
          ELSE FirstStage(Tail(parts))

\* split_data.py 7-21.
parse_label(name) == FirstStage(SplitParts(name))

\* os.path.splitext(f)[1].lower() in valid_exts (40, 50, 55).
valid_exts == {"jpg", "jpeg", "png", "webp", "bmp"}
HasValidExt(name) == name[Len(name)] \in valid_exts

\* split_data.py 36-38: the folders made under train/ and test/.
StageFolders == {"PROESTRUS", "ESTRUS", "METESTRUS", "DIESTRUS", "UNKNOWN"}

\* The subfolders source_dir may have; "." is source_dir itself.
SubfolderNames == {"ESTRUS", "Misc"}
SplitFolders == SubfolderNames \cup {"."}

\* split_ratio, between 0 and 1.
Ratios == {[num |-> 0, den |-> 1], [num |-> 1, den |-> 2],
           [num |-> 4, den |-> 5], [num |-> 1, den |-> 1]}

RECURSIVE CountFiles(_, _)
CountFiles(t, folders) ==
  IF folders = {} THEN 0
  ELSE LET d == CHOOSE d \in folders : TRUE
       IN Cardinality(t[d]) + CountFiles(t, folders \ {d})

\* split_data.py 43-60: files_by_label for the two layouts.
ScanSource(dirs, tree) ==
  IF dirs # {}
  THEN [label \in dirs |-> {<<label, f>> : f \in {g \in tree[label] : HasValidExt(g)}}]
  ELSE LET files == {f \in tree["."] : HasValidExt(f)}
           labels == {parse_label(f) : f \in files}
       IN [label \in labels |-> {<<".", f>> : f \in {g \in files : parse_label(g) = label}}]

\* split_data.py 69: int(len(items) * split_ratio).
SplitIdx(n, ratio) == (n * ratio.num) \div ratio.den

Copies(label, items) == {[label |-> label, name |-> i[2], src |-> i] : i \in items}

SplitInit ==
  /\ sDirs \in SUBSET SubfolderNames
  /\ sTree \in [SplitFolders -> SUBSET SplitNames]
  /\ \A d \in SubfolderNames \ sDirs : sTree[d] = {}
  /\ CountFiles(sTree, SplitFolders) <= MaxSplitFiles
  /\ sRatio \in Ratios
  /\ sPc = "start" /\ sOutDirs = {}
  /\ files_by_label = <<>> /\ sLabelsLeft = {}
  /\ sTrain = {} /\ sTest = {}

SplitIdle ==
  /\ sDirs = {} /\ sTree = [d \in SplitFolders |-> {}]
  /\ sRatio = [num |-> 0, den |-> 1]
  /\ sPc = "exit" /\ sOutDirs = {}
  /\ files_by_label = <<>> /\ sLabelsLeft = {}
  /\ sTrain = {} /\ sTest = {}

\* split_data.py 28-64: source_dir missing -> return; else the output
\* folders are made and the source is scanned.
SplitStart ==
  /\ sPc = "start"
  /\ \E exists \in BOOLEAN :
       IF ~exists /\ sDirs = {} /\ sTree["."] = {}
       THEN /\ sPc' = "exit"
            /\ UNCHANGED <<sOutDirs, files_by_label, sLabelsLeft>>
       ELSE /\ sPc' = "copy"
            /\ sOutDirs' = StageFolders
            /\ files_by_label' = ScanSource(sDirs, sTree)
            /\ sLabelsLeft' = DOMAIN ScanSource(sDirs, sTree)
  /\ UNCHANGED <<sDirs, sTree, sRatio, sTrain, sTest>>
  /\ OnlySplit

\* split_data.py 67-77, one label: shuffle, slice, copy.  shutil.copy2 into
\* a folder that does not exist raises FileNotFoundError, which nothing
\* catches: the run ends at the label's first copy.
CopyLabel ==
  /\ sPc = "copy" /\ sLabelsLeft # {}
  /\ \E label \in sLabelsLeft :
       LET items == files_by_label[label]
           split_idx == SplitIdx(Cardinality(items), sRatio)
       IN
       /\ sLabelsLeft' = sLabelsLeft \ {label}
       /\ IF items # {} /\ label \notin sOutDirs
          THEN /\ sPc' = "crashed"
               /\ UNCHANGED <<sTrain, sTest>>
          ELSE \E train_items \in SUBSET items :
                 /\ Cardinality(train_items) = split_idx
                 /\ sTrain' = sTrain \cup Copies(label, train_items)
                 /\ sTest' = sTest \cup Copies(label, items \ train_items)
                 /\ UNCHANGED sPc
  /\ UNCHANGED <<sDirs, sTree, sRatio, sOutDirs, files_by_label>>
  /\ OnlySplit

\* split_data.py 79-81: every label is done.
SplitEnd ==
  /\ sPc = "copy" /\ sLabelsLeft = {}
  /\ sPc' = "done"
  /\ UNCHANGED <<sDirs, sTree, sRatio, sOutDirs, files_by_label, sLabelsLeft,
                 sTrain, sTest>>
  /\ OnlySplit

(***************************************************************************)
(* ingest.py, reingest_modal.py, reingest_evf.py: ingestion of reference   *)
(* images into the reference_images table                                  *)
(***************************************************************************)
\* Largest number of directory entries in the label folders of --dir.
MaxIngestFiles == 2

IngestScripts == {"ingest.py", "reingest_modal.py", "reingest_evf.py"}
IngestLabels == {"Estrus", "DIESTRUS"}

\* File names as <<stem, extension>>.
IngestNames == {<<"a", "jpg">>, <<"b", "webp">>, <<"n", "txt">>}

\* ingest.py 78, reingest_modal.py 88.
supported_exts == {"jpg", "jpeg", "png", "webp", "bmp"}

\* ingest.py 93, reingest_modal.py 97, reingest_evf.py 77.
IngestIsImage(script, f) ==
  IF script = "reingest_evf.py" THEN f[2] \in {"jpg", "jpeg", "png"}
  ELSE f[2] \in supported_exts

RECURSIVE IngestCount(_, _)
IngestCount(t, folders) ==
  IF folders = {} THEN 0
  ELSE LET d == CHOOSE d \in folders : TRUE
       IN Cardinality(t[d]) + IngestCount(t, folders \ {d})

\* Rows the table may hold before the run.
OldRows ==
  {[id |-> <<"old", n>>, label |-> "ESTRUS", embedding |-> <<"old", n>>,
    image_path |-> <<"old", "jpg">>] : n \in 1..2}

\* The filter of the delete request: ingest.py 54 and reingest_modal.py 70
\* neq("label", "INVALID_LABEL_PLACEHOLDER"); reingest_evf.py 64 neq("id",
\* the nil UUID).
Deleted(script, r) ==
  IF script = "reingest_evf.py" THEN r.id # <<"nil", 0>>
  ELSE r.label # "INVALID_LABEL_PLACEHOLDER"

\* Whether the run issues the delete: ingest.py 47, reingest_modal.py 68,
\* reingest_evf.py 61-67 (always).
ClearIssuedIgnoringDryRun(script, clear, dry) ==
  script = "reingest_evf.py" \/ clear

ClearIssued(script, clear, dry) ==
  CASE script = "ingest.py"         -> clear
    [] script = "reingest_modal.py" -> clear /\ ~dry
    [] OTHER                        -> TRUE

\* Whether an embedding is inserted: reingest_modal.py 103-105 prints
\* instead under --dry-run; the other two scripts always insert.
InsertIssued(script, dry) == ~(script = "reingest_modal.py" /\ dry)

\* The label column: ingest.py 101 the folder name, reingest_modal.py 94
\* and reingest_evf.py 105 the folder name in upper case.
IngestLabel(script, folder) ==
  IF script = "ingest.py" THEN folder ELSE Upper(folder)

\* What the steps before the loops meet: the credentials are set, the
\* delete request, the model loading (ingest.py 59-71, reingest_evf.py
\* 54-55), --dir exists.
StartOutcomes ==
  [creds : BOOLEAN, delete : {"ok", "raises"}, load : {"ok", "raises"},
   dir : BOOLEAN]

DeleteOp(o) == [op |-> "delete", ok |-> (o.delete = "ok")]

AfterDelete(script, tbl, o) ==
  IF o.delete = "ok" THEN {r \in tbl : ~Deleted(script, r)} ELSE tbl

\* ingest.py 36-87: credentials, clear (an exception of the delete is not
\* caught), model, directory, subfolders.
StartIngest(clear, dirs, tbl, o) ==
  LET cleared == [tbl |-> IF ClearIssued("ingest.py", clear, FALSE)
                          THEN AfterDelete("ingest.py", tbl, o) ELSE tbl,
                  ops |-> IF ClearIssued("ingest.py", clear, FALSE)
                          THEN <<DeleteOp(o)>> ELSE <<>>]
  IN IF ~o.creds THEN [pc |-> "exit", tbl |-> tbl, ops |-> <<>>]
     ELSE IF ClearIssued("ingest.py", clear, FALSE) /\ o.delete = "raises"
     THEN [pc |-> "crashed"] @@ cleared
     ELSE IF o.load = "raises" \/ ~o.dir \/ dirs = {}
     THEN [pc |-> "exit"] @@ cleared
     ELSE [pc |-> "labels"] @@ cleared

\* reingest_modal.py 57-82: credentials, clear unless --dry-run, directory,
\* subfolders.
StartModal(clear, dry, dirs, tbl, o) ==
  LET issued == ClearIssued("reingest_modal.py", clear, dry)
      cleared == [tbl |-> IF issued THEN AfterDelete("reingest_modal.py", tbl, o)
                          ELSE tbl,
                  ops |-> IF issued THEN <<DeleteOp(o)>> ELSE <<>>]
  IN IF ~o.creds THEN [pc |-> "exit", tbl |-> tbl, ops |-> <<>>]
     ELSE IF issued /\ o.delete = "raises" THEN [pc |-> "crashed"] @@ cleared
     ELSE IF ~o.dir \/ dirs = {} THEN [pc |-> "exit"] @@ cleared
     ELSE [pc |-> "labels"] @@ cleared

\* reingest_evf.py 25-26 (ValueError at import), 54-55 (the loads are not
\* guarded), 61-67 (an exception of the delete is caught and printed), 72
\* (os.listdir of a missing directory raises).
StartEvf(tbl, o) ==
  IF ~o.creds \/ o.load = "raises"
  THEN [pc |-> "crashed", tbl |-> tbl, ops |-> <<>>]
  ELSE [pc |-> IF o.dir THEN "labels" ELSE "crashed",
        tbl |-> AfterDelete("reingest_evf.py", tbl, o),
        ops |-> <<DeleteOp(o)>>]

StartOf(script, clear, dry, dirs, tbl, o) ==
  CASE script = "ingest.py"         -> StartIngest(clear, dirs, tbl, o)
    [] script = "reingest_modal.py" -> StartModal(clear, dry, dirs, tbl, o)
    [] OTHER                        -> StartEvf(tbl, o)

\* What handling one file meets.  exists: the raw image is there
\* (reingest_evf.py 83).  seg: segment_with_evf_sam2 (reingest_evf.py 93).
\* embed: "open_raises" the image cannot be opened, "raises" the model or
\* the endpoint fails, "missing" the answer has no embedding
\* (reingest_modal.py 43).  insert: the insert request.
IngestOutcomes(script) ==
  CASE script = "ingest.py" ->
         [exists : {TRUE}, seg : {"n/a"}, embed : {"open_raises", "raises"},
          insert : {"n/a"}]
         \cup [exists : {TRUE}, seg : {"n/a"}, embed : {"ok"},
               insert : {"ok", "raises"}]
    [] script = "reingest_modal.py" ->
         [exists : {TRUE}, seg : {"n/a"},
          embed : {"open_raises", "raises", "missing"}, insert : {"n/a"}]
         \cup [exists : {TRUE}, seg : {"n/a"}, embed : {"ok"},
               insert : {"ok", "raises"}]
    [] OTHER ->
         {[exists |-> FALSE, seg |-> "n/a", embed |-> "n/a", insert |-> "n/a"],
          [exists |-> TRUE, seg |-> "n/a", embed |-> "open_raises",
           insert |-> "n/a"]}
         \cup [exists : {TRUE}, seg : {"image", "none"}, embed : {"raises"},
               insert : {"n/a"}]
         \cup [exists : {TRUE}, seg : {"image", "none"}, embed : {"ok"},
               insert : {"ok", "raises"}]

\* The embedding of a file: of the crop when EVF-SAM2 returned one
\* (reingest_evf.py 94-99), else of the image itself.
EmbeddingOf(folder, f, o) ==
  <<folder, f, IF o.seg = "image" THEN "cropped" ELSE "raw">>

\* The exception of one loop body that nothing catches: get_embedding in
\* reingest_evf.py 99 is outside every try.
EmbedPropagates(script, o) == script = "reingest_evf.py" /\ o.embed = "raises"

\* The insert request of one loop body: at most one, and only with an
\* embedding (ingest.py 99-108, reingest_modal.py 102-118, reingest_evf.py
\* 102-108).
InsertOps(script, dry, folder, f, o) ==
  IF o.embed = "ok" /\ InsertIssued(script, dry)
  THEN <<[op |-> "insert", ok |-> (o.insert = "ok"), folder |-> folder,
          file |-> f]>>
  ELSE <<>>

\* The row a successful insert adds; n numbers the requests of the run.
InsertedRows(script, dry, folder, f, o, n) ==
  IF o.embed = "ok" /\ InsertIssued(script, dry) /\ o.insert = "ok"
  THEN {[id |-> <<"run", n>>, label |-> IngestLabel(script, folder),
         embedding |-> EmbeddingOf(folder, f, o), image_path |-> f]}
  ELSE {}

IngestInit ==
  /\ iScript \in IngestScripts
  /\ iClear \in BOOLEAN /\ iDryRun \in BOOLEAN
  /\ iScript # "reingest_modal.py" => ~iDryRun
  /\ iScript = "reingest_evf.py" => ~iClear
  /\ iDirs \in SUBSET IngestLabels
  /\ iTree \in [IngestLabels -> SUBSET IngestNames]
  /\ \A d \in IngestLabels \ iDirs : iTree[d] = {}
  /\ IngestCount(iTree, IngestLabels) <= MaxIngestFiles
  /\ iPc = "start"
  /\ iLabelsLeft = {} /\ iLabel = "none" /\ iFilesLeft = {}
  /\ reference_images \in SUBSET OldRows
  /\ iOps = <<>> /\ iLog = {}

IngestIdle ==
  /\ iScript = "none" /\ iClear = FALSE /\ iDryRun = FALSE
  /\ iDirs = {} /\ iTree = [d \in IngestLabels |-> {}]
  /\ iPc = "exit"
  /\ iLabelsLeft = {} /\ iLabel = "none" /\ iFilesLeft = {}
  /\ reference_images = {}
  /\ iOps = <<>> /\ iLog = {}

\* Everything before the loops.
IngestStart ==
  /\ iPc = "start"
  /\ \E o \in StartOutcomes :
       LET r == StartOf(iScript, iClear, iDryRun, iDirs, reference_images, o)
       IN /\ iPc' = r.pc
          /\ reference_images' = r.tbl
          /\ iOps' = r.ops
          /\ iLabelsLeft' = IF r.pc = "labels" THEN iDirs ELSE {}
  /\ UNCHANGED <<iScript, iClear, iDryRun, iDirs, iTree, iLabel, iFilesLeft, iLog>>
  /\ OnlyIngest

\* The outer loop takes the next label folder and lists its image files.
IngestEnterLabel ==
  /\ iPc = "labels" /\ iLabelsLeft # {}
  /\ \E label \in iLabelsLeft :
       /\ iLabel' = label
       /\ iLabelsLeft' = iLabelsLeft \ {label}
       /\ iFilesLeft' = {f \in iTree[label] : IngestIsImage(iScript, f)}
  /\ iPc' = "files"
  /\ UNCHANGED <<iScript, iClear, iDryRun, iDirs, iTree, reference_images, iOps,
                 iLog>>
  /\ OnlyIngest

\* One iteration of the inner loop (ingest.py 95-110, reingest_modal.py
\* 99-124, reingest_evf.py 80-111).
IngestFile ==
  /\ iPc = "files" /\ iFilesLeft # {}
  /\ \E f \in iFilesLeft, o \in IngestOutcomes(iScript) :
       LET ops == InsertOps(iScript, iDryRun, iLabel, f, o)
           rows == InsertedRows(iScript, iDryRun, iLabel, f, o, Len(iOps) + 1)
       IN /\ iFilesLeft' = iFilesLeft \ {f}
          /\ iOps' = iOps \o ops
          /\ reference_images' = reference_images \cup rows
          /\ iLog' = iLog \cup {[label |-> iLabel, file |-> f, outcome |-> o,
                                 attempts |-> Len(ops), rows |-> rows]}
          /\ iPc' = IF EmbedPropagates(iScript, o) THEN "crashed" ELSE iPc
  /\ UNCHANGED <<iScript, iClear, iDryRun, iDirs, iTree, iLabelsLeft, iLabel>>
  /\ OnlyIngest

\* The inner loop is exhausted: back to the outer loop.
IngestLeaveLabel ==
  /\ iPc = "files" /\ iFilesLeft = {}
  /\ iPc' = "labels" /\ iLabel' = "none"
  /\ UNCHANGED <<iScript, iClear, iDryRun, iDirs, iTree, iLabelsLeft, iFilesLeft,
                 reference_images, iOps, iLog>>
  /\ OnlyIngest

\* The outer loop is exhausted: the summary is printed.
IngestEnd ==
  /\ iPc = "labels" /\ iLabelsLeft = {}
  /\ iPc' = "done"
  /\ UNCHANGED <<iScript, iClear, iDryRun, iDirs, iTree, iLabelsLeft, iLabel,
                 iFilesLeft, reference_images, iOps, iLog>>
  /\ OnlyIngest

(***************************************************************************)
(* The local segmentation functions, one call each: segment_with_evf_sam2  *)
(* (evf_sam_wrapper.py), segment_with_sam3 (segment_sam3.py),              *)
(* segment_with_sam2 and segment_with_owlv2 (main.py),                     *)
(* segment_with_endpoint (segment_sam3_cloud.py), SAM3Segmenter.segment    *)
(* (sam3_modal.py), with the crop rectangle they compute                   *)
(***************************************************************************)
\* Largest number of positive pixels of a mask.
MaxMaskPixels == 2

\* Image widths and heights, and the coordinates a positive pixel may have.
CropSides == {1, 12, 41}
CropCoords == {0, 11, 40}

PixelsOf(w, h) == {p \in CropCoords \X CropCoords : p[1] < w /\ p[2] < h}

\* Masks after thresholding: the sets of positive pixels <<x, y>>.
MasksOf(w, h) ==
  {m \in SUBSET PixelsOf(w, h) : Cardinality(m) <= MaxMaskPixels}

Geometries ==
  UNION {[w : {w}, h : {h}, mask : MasksOf(w, h)] : w \in CropSides, h \in CropSides}

Max2(a, b) == IF a >= b THEN a ELSE b
Min2(a, b) == IF a <= b THEN a ELSE b

\* The padding constant of each function: evf_sam_wrapper.py 162, main.py
\* 133, segment_sam3.py 133, segment_sam3_cloud.py 123, sam3_modal.py 162.
PaddingOf(fn) ==
  CASE fn \in {"segment_with_evf_sam2", "segment_with_sam2"} -> 20
    [] fn \in {"segment_with_sam3", "segment_with_endpoint"} -> 30
    [] OTHER -> 10

\* evf_sam_wrapper.py 153-166 (and the same lines of the other functions):
\* first and last true column and row, padded and clamped to the image.
PaddedBoxUnpadded(mask, w, h, p) ==
  [left |-> BoxOf(mask).xmin, top |-> BoxOf(mask).ymin,
   right |-> BoxOf(mask).xmax, bottom |-> BoxOf(mask).ymax]

PaddedBox(mask, w, h, p) ==
  LET b == BoxOf(mask)
  IN [left  |-> Max2(0, b.xmin - p), top    |-> Max2(0, b.ymin - p),
      right |-> Min2(w, b.xmax + p), bottom |-> Min2(h, b.ymax + p)]

NoBox == [left |-> 0, top |-> 0, right |-> 0, bottom |-> 0]

\* The inference of a call, as the model's earlier operators take it.
InferOf(req) ==
  IF req.raises THEN "raises"
  ELSE IF req.score = "low" \/ req.mask = {} THEN "empty" ELSE "mask"

Returned(fn, ret, req) ==
  [raised |-> ret = "raised", ret |-> ret,
   box |-> IF ret = "image" /\ req.mask # {}
           THEN PaddedBox(req.mask, req.w, req.h, PaddingOf(fn)) ELSE NoBox]

\* segment_sam3.py 59-182.
segment_with_sam3(req) ==
  IF ~req.loaded THEN "None"
  ELSE IF req.raises THEN "None"
  ELSE IF req.score = "low" THEN "None"
  ELSE IF req.mask = {} THEN "None"
  ELSE IF req.bg_mode \notin {"crop", "transparent", "solid", "mask_crop"}
       THEN "None"
  ELSE "image"

\* sam3_modal.py 82-194: nothing is caught; without a mask the original
\* image is returned.
SAM3SegmenterSegment(req) ==
  IF req.raises THEN "raised"
  ELSE IF req.score = "low" \/ req.mask = {} THEN "original"
  ELSE "image"

BgModes == {"crop", "transparent", "solid", "mask_crop", "other"}

\* The calls: the function, the state of its model globals, what the
\* third-party steps do, the image size and the mask the model yields.
LocalRequests ==
  {g @@ e : g \in Geometries,
            e \in [fn : {"segment_with_evf_sam2"}, loaded : BOOLEAN,
                   load : LoadOutcomes, raises : BOOLEAN, score : {"high"},
                   bg_mode : {"crop"}]
              \cup [fn : {"segment_with_sam3"}, loaded : BOOLEAN, load : {"ok"},
                    raises : BOOLEAN, score : {"low", "high"}, bg_mode : BgModes]
              \cup [fn : {"segment_with_sam2"}, loaded : BOOLEAN, load : {"ok"},
                    raises : BOOLEAN, score : {"low", "high"}, bg_mode : {"crop"}]
              \cup [fn : {"SAM3Segmenter.segment"}, loaded : {TRUE}, load : {"ok"},
                    raises : BOOLEAN, score : {"low", "high"},
                    bg_mode : {"crop", "transparent", "mask_crop"}]}
  \cup [fn : {"segment_with_owlv2"}, loaded : BOOLEAN, load : {"ok"},
        raises : BOOLEAN, score : {"low", "high"}, bg_mode : {"crop"},
        w : {12}, h : {12}, mask : {{}}]
  \cup [fn : {"segment_with_endpoint"}, url : BOOLEAN, net : NetOutcomes,
        shape : ResultShapes, w : {12}, h : {12}, mask : {{}}]

\* One call, dispatched to the function it names.
LocalCall(req) ==
  CASE req.fn = "segment_with_evf_sam2" ->
         LET g == [model |-> IF req.loaded THEN 1 ELSE None,
                   tokenizer |-> IF req.loaded THEN 1 ELSE None,
                   device |-> "unset", dtype |-> "unset"]
             b == [model |-> 0, tokenizer |-> 0]
         IN Returned(req.fn,
                     segment_with_evf_sam2(g, b, req.load, InferOf(req)).ret, req)
    [] req.fn = "segment_with_sam3" ->
         Returned(req.fn, segment_with_sam3(req), req)
    [] req.fn = "segment_with_sam2" ->
         Returned(req.fn,
                  segment_with_pair([model |-> req.loaded, processor |-> req.loaded],
                                    InferOf(req)), req)
    [] req.fn = "segment_with_owlv2" ->
         [raised |-> FALSE, box |-> NoBox,
          ret |-> segment_with_pair([model |-> req.loaded, processor |-> req.loaded],
                                    IF req.raises THEN "raises"
                                    ELSE IF req.score = "low" THEN "empty"
                                    ELSE "mask")]
    [] req.fn = "segment_with_endpoint" ->
         LET r == segment_with_endpoint(req.url, req.net, req.shape)
         IN [raised |-> r.raised, ret |-> r.ret, box |-> NoBox]
    [] OTHER -> Returned(req.fn, SAM3SegmenterSegment(req), req)

LocalInit ==
  /\ gReq \in LocalRequests
  /\ gRet = [state |-> "pending"]

LocalIdle ==
  /\ gReq = [fn |-> "none"]
  /\ gRet = [state |-> "pending"]

CallLocal ==
  /\ gRet.state = "pending"
  /\ gReq.fn # "none"
  /\ gRet' = [state |-> "returned"] @@ LocalCall(gReq)
  /\ UNCHANGED gReq
  /\ OnlyLocal

SvcIdle ==
  /\ SEGMENTATION_MODEL = "sam3_cloud" /\ USE_LINEAR_PROBE = FALSE
  /\ bioclip = [model |-> FALSE, preprocess |-> FALSE]
  /\ classifier_data = FALSE /\ evf_loaded = FALSE
  /\ sam2 = [model |-> FALSE, processor |-> FALSE]
  /\ owlv2 = [model |-> FALSE, processor |-> FALSE]
  /\ phase = "created" /\ segLoadRaised = FALSE
  /\ resp = [endpoint |-> "none"]

CfgIdle == SAM3_ENDPOINT_URL = FALSE /\ HF_TOKEN = FALSE

CloudIdle == posts = 0 /\ cloudLast = [fn |-> "none"]

vars == <<evfVars, svcVars, cfgVars, cloudVars, handlerVars, batchVars, splitVars,
          ingestVars, localVars>>

InitEvf ==
  EvfInit /\ SvcIdle /\ CfgIdle /\ CloudIdle /\ HandlerIdle /\ BatchIdle /\ SplitIdle
  /\ IngestIdle
  /\ LocalIdle
NextEvf == CallLoadEvf \/ CallSegmentEvf
SpecEvf == InitEvf /\ [][NextEvf]_vars

InitService ==
  /\ SvcInit /\ EvfInit /\ CloudIdle /\ HandlerIdle /\ BatchIdle /\ SplitIdle
  /\ SAM3_ENDPOINT_URL \in BOOLEAN /\ HF_TOKEN \in BOOLEAN
  \* the endpoint settings and the GPU matter only to the mode that reads them
  /\ SEGMENTATION_MODEL # "sam3_cloud" => ~SAM3_ENDPOINT_URL /\ ~HF_TOKEN
  /\ SEGMENTATION_MODEL # "evf" => ~hasCuda
  /\ IngestIdle
  /\ LocalIdle
NextService == load_models \/ generate_embedding \/ classify_image
SpecService == InitService /\ [][NextService]_vars

InitCloud ==
  /\ CloudInit /\ SvcIdle /\ EvfInit /\ hasCuda = FALSE /\ HandlerIdle /\ BatchIdle
  /\ SplitIdle
  /\ IngestIdle
  /\ LocalIdle
NextCloud == CallSam3Cloud \/ CallSegmentWithEndpoint \/ CallCropWithSam3
SpecCloud == InitCloud /\ [][NextCloud]_vars

InitHandler ==
  /\ HandlerInit /\ SvcIdle /\ EvfInit /\ hasCuda = FALSE /\ CfgIdle /\ CloudIdle
  /\ BatchIdle /\ SplitIdle
  /\ IngestIdle
  /\ LocalIdle
NextHandler == Call
SpecHandler == InitHandler /\ [][NextHandler]_vars

InitBatch ==
  /\ BatchInit /\ SvcIdle /\ EvfInit /\ hasCuda = FALSE /\ CfgIdle /\ CloudIdle
  /\ HandlerIdle /\ SplitIdle
  /\ IngestIdle
  /\ LocalIdle
NextBatch == BatchStart \/ EnterLabel \/ ProcessFile \/ LeaveLabel \/ BatchEnd
SpecBatch == InitBatch /\ [][NextBatch]_vars

InitSplit ==
  /\ SplitInit /\ SvcIdle /\ EvfInit /\ hasCuda = FALSE /\ CfgIdle /\ CloudIdle
  /\ HandlerIdle /\ BatchIdle
  /\ IngestIdle
  /\ LocalIdle
NextSplit == SplitStart \/ CopyLabel \/ SplitEnd
SpecSplit == InitSplit /\ [][NextSplit]_vars

InitIngest ==
  /\ IngestInit /\ SvcIdle /\ EvfInit /\ hasCuda = FALSE /\ CfgIdle /\ CloudIdle
  /\ HandlerIdle /\ BatchIdle /\ SplitIdle
  /\ LocalIdle
NextIngest ==
  IngestStart \/ IngestEnterLabel \/ IngestFile \/ IngestLeaveLabel \/ IngestEnd
SpecIngest == InitIngest /\ [][NextIngest]_vars

InitLocal ==
  /\ LocalInit /\ SvcIdle /\ EvfInit /\ hasCuda = FALSE /\ CfgIdle /\ CloudIdle
  /\ HandlerIdle /\ BatchIdle /\ SplitIdle /\ IngestIdle
NextLocal == CallLocal
SpecLocal == InitLocal /\ [][NextLocal]_vars

(***************************************************************************)
(* Properties                                                              *)
(***************************************************************************)
NothingRan(r) == ~r.fileRead /\ ~r.segCalled /\ ~r.embedCalled

(* C1: POST /classify evaluates its guards in a fixed order before the     *)
(* file is read: BioCLIP not loaded -> 503; else USE_LINEAR_PROBE false -> *)
(* 400; else no classifier -> 503; in all three cases neither the file is  *)
(* read nor segmentation nor embedding is invoked.                         *)
C1_ClassifyGuardOrder ==
  resp.endpoint = "classify" =>
    /\ ~resp.pre.bioclip =>
         /\ resp.status = 503 /\ resp.detail = "BioCLIP model not initialized"
         /\ NothingRan(resp)
    /\ resp.pre.bioclip /\ ~resp.pre.lp =>
         /\ resp.status = 400 /\ NothingRan(resp)
    /\ resp.pre.bioclip /\ resp.pre.lp /\ ~resp.pre.clf =>
         /\ resp.status = 503 /\ resp.detail = "Classifier not loaded"
         /\ NothingRan(resp)

\* The case that tells the order apart: probe disabled and no classifier.
C1_Witness ==
  /\ resp.endpoint = "classify"
  /\ resp.pre.bioclip /\ ~resp.pre.lp /\ ~resp.pre.clf
  /\ resp.status = 400

(* C2: in /embed and /classify, whenever segment_image returns None the    *)
(* request goes on to the embedding with the original image and does not   *)
(* fail because of segmentation; in a /classify answer `cropped` is true   *)
(* exactly when segment_image returned an image.                           *)
C2_NoneFallsBackToOriginal ==
  resp.endpoint \in {"embed", "classify"} =>
    /\ resp.segRet = "None" =>
         /\ resp.embedCalled /\ resp.embedInput = "original"
         /\ resp.cause # "segmentation"
    /\ resp.segRet = "image" => resp.embedCalled /\ resp.embedInput = "cropped"
    /\ resp.endpoint = "classify" /\ resp.status = 200 =>
         (resp.cropped = "true" <=> resp.segRet = "image")

C2_Witness ==
  /\ resp.endpoint = "classify" /\ resp.status = 200
  /\ resp.segRet = "None" /\ resp.cropped = "false"
  /\ resp.embedInput = "original"

(* C3: if loading the configured segmentation model (evf, sam2, owlv2)     *)
(* raised during startup, the service still starts, and every later /embed *)
(* and /classify request processes the uncropped original image and does   *)
(* not fail because of the segmentation model.                             *)
C3_FailedSegLoadDisablesCropping ==
  segLoadRaised /\ SEGMENTATION_MODEL \in {"evf", "sam2", "owlv2"} =>
    /\ phase = "started"
    /\ resp.endpoint \in {"embed", "classify"} /\ resp.pre.phase = "started"
       /\ resp.segCalled =>
         /\ resp.cause # "segmentation"
         /\ resp.segRet = "None"

(* C4: segment_with_sam3_cloud never raises and on every path returns a    *)
(* pair with exactly one non-None component: (image, None) on success (a   *)
(* 200 answer holding an image, raw or in JSON), (None, message) otherwise.*)
C4_ExactlyOneOfImageAndError ==
  cloudLast.fn = "segment_with_sam3_cloud" =>
    /\ ~cloudLast.raised
    /\ (cloudLast.ret.img = "None") # (cloudLast.ret.err = "None")
    /\ cloudLast.ret.img # "None" <=>
         /\ SAM3_ENDPOINT_URL /\ HF_TOKEN
         /\ cloudLast.net.kind = "response" /\ cloudLast.net.status = 200
         /\ cloudLast.net.body \in {"image", "json_image"}

\* A 200 answer whose JSON has no "image": a failure reported as a message.
C4_Witness ==
  /\ cloudLast.fn = "segment_with_sam3_cloud"
  /\ SAM3_ENDPOINT_URL /\ HF_TOKEN
  /\ cloudLast.net.kind = "response" /\ cloudLast.net.status = 200
  /\ cloudLast.net.body = "json_noimage"
  /\ cloudLast.ret.img = "None" /\ cloudLast.ret.err # "None"

(* C5: requests are not retried: one call of segment_with_sam3_cloud, of   *)
(* segment_with_endpoint (query_endpoint) or of crop_with_sam3 sends at    *)
(* most one POST, also after a failure, and segment_with_sam3_cloud sends  *)
(* none when SAM3_ENDPOINT_URL or HF_TOKEN is unset.                       *)
C5_AtMostOnePostPerCall ==
  [][/\ posts' <= posts + 1
     /\ cloudLast'.fn = "segment_with_sam3_cloud"
        /\ ~(SAM3_ENDPOINT_URL /\ HF_TOKEN) => posts' = posts]_vars

\* A second call after a first POST, failing by timeout, having sent one POST.
C5_Witness ==
  /\ cloudLast.fn = "segment_with_sam3_cloud"
  /\ cloudLast.net.kind = "timeout" /\ cloudLast.sent = 1
  /\ posts = 2

(* C6: load-once caching of the EVF-SAM2 model: once a load_evf_sam2 call  *)
(* has completed successfully, no call of load_evf_sam2 (any precision) or *)
(* segment_with_evf_sam2 constructs the model or the tokenizer again, the  *)
(* globals keep their values, and the call gets the same handles.          *)
C6_LoadOnce ==
  [][evfOk =>
       /\ evf' = evf /\ evfBuilt' = evfBuilt
       /\ ~evfLast'.raised
       /\ evfLast'.ret = <<evf.model, evf.tokenizer>>]_vars

\* A later load with another precision that was served from the cache.
C6_Witness ==
  /\ evfOk /\ evfLast.fn = "load" /\ evfLast.precision = "fp16"
  /\ ~evfLast.raised /\ evf.dtype = "float32"
  /\ evfBuilt.model = 1

(* C7: EndpointHandler.__call__ always returns at least the best result:   *)
(* whenever the model yields at least one query score and no exception     *)
(* occurs, the returned list is non-empty and holds the result of the      *)
(* highest-scoring query, even if no score reaches the threshold.          *)
C7_AlwaysBestResult ==
  /\ hRet.state = "returned" /\ hReq.inputs \in Decodable /\ ~Raises(hReq)
  /\ Len(hReq.out.scores) > 0
  => /\ hRet.list # <<>>
     /\ \E i \in 1..Len(hRet.list) :
          hRet.list[i].score = hReq.out.scores[ArgMax(hReq.out.scores)]

\* What the code does keep: the best query's result when its mask is not blank.
C7_BestResultWhenMaskNotBlank ==
  /\ hRet.state = "returned" /\ hReq.inputs \in Decodable /\ ~Raises(hReq)
  /\ Len(hReq.out.scores) > 0
  /\ hReq.out.masks[ArgMax(hReq.out.scores)] # {}
  => /\ hRet.list # <<>>
     /\ \E i \in 1..Len(hRet.list) : hRet.list[i].idx = ArgMax(hReq.out.scores)

(* C8: EndpointHandler.__call__ never raises: inputs that are neither a    *)
(* string, bytes nor a PIL image (also a request without "inputs") give a  *)
(* one-element list whose entry has an error key; when any step raises the *)
(* return is a one-element list whose entry has error and traceback keys,  *)
(* with no segmentation result.                                            *)
C8_NeverRaises ==
  hRet.state = "returned" =>
    /\ ~hRet.raised
    /\ hReq.inputs \in {"missing_key", "other_type"} =>
         /\ Len(hRet.list) = 1 /\ hRet.list[1].error
    /\ Raises(hReq) =>
         /\ Len(hRet.list) = 1
         /\ hRet.list[1].error /\ hRet.list[1].traceback

\* The encoding of the second result's mask raises after a first result was built.
C8_Witness ==
  /\ hRet.state = "returned" /\ ~hRet.raised
  /\ hReq.inputs = "str" /\ hReq.raises = "encode"
  /\ Len(Loop(hReq.out, 1, hReq.threshold, TRUE)) = 2
  /\ hRet.list = <<ErrorEntry(TRUE)>>

\* C3, the part that holds: with sam2 and owlv2 a failed load leaves cropping off.
C3_HoldsForSam2AndOwlv2 ==
  SEGMENTATION_MODEL \in {"sam2", "owlv2"} => C3_FailedSegLoadDisablesCropping

\* C3, the failure itself: no request fails in segmentation after a failed load.
C3_NoRequestFailsInSegmentation ==
  segLoadRaised /\ resp.endpoint \in {"embed", "classify"} =>
    resp.cause # "segmentation"

\* The saves made for log entry e.
WritesOf(e) == {w \in bWrites : w.src = e.file /\ w.label = e.label}

ExpectedKind(e) == IF e.outcome.seg = "ok" THEN "segmented" ELSE "original"

ImageFilesOf(label) == {f \in bTree[label] : IsImageFile(bScript, f)}

AllFilesHandled ==
  \A label \in BatchLabels : \A f \in ImageFilesOf(label) :
    \E e \in bLog : e.label = label /\ e.file = f

(* C9 (as stated): in the batch cropping scripts, for every image file of  *)
(* a label folder that can be opened a file is written into                *)
(* output/<label>/, the segmented result when segmentation succeeds and    *)
(* otherwise the original; an exception on one file is caught and the      *)
(* remaining files and labels are still processed; success <= total.       *)
C9_EveryOpenedFileIsWritten ==
  /\ \A e \in bLog :
       e.outcome.open = "ok" =>
         \E w \in WritesOf(e) : w.kind = ExpectedKind(e)
  /\ bPc = "done" => AllFilesHandled
  /\ success <= total

(* C9 (amended): for every image file whose loop body raises no exception  *)
(* exactly one file is written into output/<label>/, the segmented result  *)
(* when segmentation succeeds and otherwise the original; a file whose     *)
(* loop body raises (opening, inference in segment.py, saving) gets no     *)
(* output file, and all remaining files and labels are still processed;    *)
(* success <= total at every point.                                        *)
C9_FilesWithoutExceptionAreWritten ==
  /\ \A e \in bLog :
       IF BodyRaised(e.outcome) THEN WritesOf(e) = {}
       ELSE /\ Cardinality(WritesOf(e)) = 1
            /\ \A w \in WritesOf(e) : w.kind = ExpectedKind(e)
  /\ bPc = "done" => AllFilesHandled
  /\ success <= total

\* A finished run of segment.py in which the inference raised on one file
\* and a later file without detection was saved as the original.
C9_Witness ==
  /\ bPc = "done" /\ bScript = "segment.py"
  /\ \E e1 \in bLog, e2 \in bLog :
       /\ e1.outcome.seg = "raises" /\ e1.label = "ESTRUS"
       /\ e2.outcome.seg = "none" /\ e2.outcome.save = "ok"
       /\ e2.label = "DIESTRUS"
       /\ \E w \in WritesOf(e2) : w.kind = "original"

CopiesOf(copies, label) == {c \in copies : c.label = label}

(* C10: within one run of split_dataset, for every label (flat layout or   *)
(* any class-subfolder name) with n image files, each file is copied to    *)
(* exactly one of train/<label> and test/<label>, train receives exactly   *)
(* floor(n * split_ratio) files and test the other n minus that.           *)
C10_EveryFileCopiedToOneSide ==
  sPc \in {"done", "crashed"} =>
    \A label \in DOMAIN files_by_label :
      LET items == files_by_label[label]
          n == Cardinality(items)
          k == (n * sRatio.num) \div sRatio.den
          tr == CopiesOf(sTrain, label)
          te == CopiesOf(sTest, label)
      IN /\ \A i \in items :
              (\E c \in tr : c.src = i) # (\E c \in te : c.src = i)
         /\ Cardinality(tr) = k
         /\ Cardinality(te) = n - k

\* C10 for the labels whose output folders exist: the runs that complete.
C10_HoldsWhenRunCompletes ==
  sPc = "crashed" \/ C10_EveryFileCopiedToOneSide

(* C11: split_dataset places each image under the label folder equal to    *)
(* parse_label of its file name, in both the flat layout and the           *)
(* class-subfolder layout.                                                 *)
C11_PlacedUnderParsedLabel ==
  \A c \in sTrain \cup sTest : c.label = parse_label(c.name)

\* C11 restricted to the flat layout (no subfolder in source_dir).
C11_HoldsInFlatLayout ==
  sDirs = {} => C11_PlacedUnderParsedLabel

(* C12: reingest_modal.py with --dry-run performs no modification of the   *)
(* reference_images table: no delete is issued (even when --clear is also  *)
(* given) and no insert is issued for any image; embeddings are still      *)
(* requested from the endpoint.                                            *)
C12_DryRunModifiesNothing ==
  [][iScript = "reingest_modal.py" /\ iDryRun =>
       /\ reference_images' = reference_images
       /\ iOps' = <<>>
       /\ \A e \in iLog' : e.outcome.embed # "n/a" /\ e.attempts = 0]_vars

\* A finished --clear --dry-run run over a non-empty table in which an
\* embedding came back.
C12_Witness ==
  /\ iScript = "reingest_modal.py" /\ iDryRun /\ iClear /\ iPc = "done"
  /\ reference_images # {}
  /\ \E e \in iLog : e.outcome.embed = "ok"

RunRows(tbl) == {r \in tbl : r.id[1] = "run"}

(* C13: in ingest.py (--clear), reingest_modal.py (--clear without         *)
(* --dry-run) and reingest_evf.py, the delete of the existing rows is      *)
(* issued before the first insert of the run, so that after a completed    *)
(* run the table holds exactly the rows inserted by that run.              *)
C13_ClearBeforeIngest ==
  iScript \in IngestScripts /\ ~(iScript = "reingest_modal.py" /\ iDryRun)
  /\ (iClear \/ iScript = "reingest_evf.py") =>
    /\ \A i \in 1..Len(iOps) : iOps[i].op = "insert" => iOps[1].op = "delete"
    /\ \A i \in 2..Len(iOps) : iOps[i].op # "delete"
    /\ iPc = "done" => /\ Len(iOps) >= 1 /\ iOps[1].op = "delete"
                       /\ reference_images = RunRows(reference_images)

\* C13 for the two scripts that do not go on after a failed delete.
C13_HoldsForIngestAndModal ==
  iScript # "reingest_evf.py" => C13_ClearBeforeIngest

IngestFilesOf(script, tree, dirs) ==
  {p \in IngestLabels \X IngestNames :
     p[1] \in dirs /\ p[2] \in tree[p[1]] /\ IngestIsImage(script, p[2])}

(* C18: during ingestion a failure to embed one image or a database insert *)
(* error for one image is caught and printed, that image contributes no    *)
(* row, and ingestion continues with the next image; each image leads to   *)
(* at most one insert attempt, and each successful insert adds exactly one *)
(* row carrying that image's label and embedding.                          *)
C18_ImageFailuresAreSkipped ==
  /\ \A e \in iLog :
       /\ e.attempts <= 1
       /\ e.outcome.embed # "ok" \/ e.outcome.insert # "ok" => e.rows = {}
       /\ e.attempts = 1 /\ e.outcome.insert = "ok" =>
            /\ Cardinality(e.rows) = 1
            /\ e.rows \subseteq reference_images
            /\ \A r \in e.rows :
                 /\ Upper(r.label) = Upper(e.label)
                 /\ r.embedding = EmbeddingOf(e.label, e.file, e.outcome)
  /\ Cardinality(RunRows(reference_images)) =
       Cardinality({e \in iLog : e.attempts = 1 /\ e.outcome.insert = "ok"})
  \* no image ends the run
  /\ iLog # {} => iPc # "crashed"
  /\ iPc = "done" =>
       {<<e.label, e.file>> : e \in iLog} = IngestFilesOf(iScript, iTree, iDirs)

\* C18 for the two scripts whose embedding step catches its exceptions.
C18_HoldsForIngestAndModal ==
  iScript # "reingest_evf.py" => C18_ImageFailuresAreSkipped

IsSegment(r) == "error" \notin DOMAIN r

\* The box is the tight inclusive bounding box of the positive pixels.
TightBox(box, mask) ==
  /\ \A p \in mask : /\ box.xmin <= p[1] /\ p[1] <= box.xmax
                     /\ box.ymin <= p[2] /\ p[2] <= box.ymax
  /\ \E p \in mask : p[1] = box.xmin
  /\ \E p \in mask : p[1] = box.xmax
  /\ \E p \in mask : p[2] = box.ymin
  /\ \E p \in mask : p[2] = box.ymax

PaddedFns == {"segment_with_evf_sam2", "segment_with_sam3", "segment_with_sam2",
              "SAM3Segmenter.segment"}

(* C15: for every non-empty boolean mask over a w x h image and the fixed  *)
(* padding p (20, 30 or 10), the crop rectangle (max(0, xmin-p),           *)
(* max(0, ymin-p), min(w, xmax+p), min(h, ymax+p)) from the first and last *)
(* true row and column satisfies 0 <= left < right <= w and                *)
(* 0 <= top < bottom <= h and, read as a half-open rectangle, contains     *)
(* every true pixel of the mask.                                           *)
C15_PaddedBoxWithinImage ==
  /\ gRet.state = "returned" /\ gReq.fn \in PaddedFns
  /\ gRet.ret = "image" /\ gReq.mask # {}
  => LET c == gRet.box IN
     /\ 0 <= c.left /\ c.left < c.right /\ c.right <= gReq.w
     /\ 0 <= c.top /\ c.top < c.bottom /\ c.bottom <= gReq.h
     /\ \A p \in gReq.mask : /\ c.left <= p[1] /\ p[1] < c.right
                             /\ c.top <= p[2] /\ p[2] < c.bottom

\* A crop whose left edge is padded freely, whose right edge is clamped to
\* the image and whose top edge is clamped to 0.
C15_Witness ==
  /\ gRet.state = "returned" /\ gReq.fn = "SAM3Segmenter.segment"
  /\ gRet.ret = "image" /\ gReq.w = 41 /\ gReq.h = 12
  /\ gReq.mask = {<<11, 0>>, <<40, 11>>}
  /\ gRet.box = [left |-> 1, top |-> 0, right |-> 41, bottom |-> 12]

LocalFns == {"segment_with_evf_sam2", "segment_with_sam3", "segment_with_sam2",
             "segment_with_owlv2", "segment_with_endpoint"}

(* C16: each local segmentation function (segment_with_evf_sam2,           *)
(* segment_with_sam3, segment_with_sam2, segment_with_owlv2,               *)
(* segment_with_endpoint) returns either an image or None and never        *)
(* propagates an exception: None when its model is not loaded or cannot be *)
(* loaded, when the mask has no positive pixel or nothing is detected,     *)
(* when the best confidence is below the threshold, when bg_mode is        *)
(* unknown, and when any step raises.                                      *)
C16_ImageOrNoneNeverRaises ==
  gRet.state = "returned" /\ gReq.fn \in LocalFns =>
    /\ ~gRet.raised
    /\ gRet.ret \in {"image", "None"}
    /\ gReq.fn # "segment_with_endpoint" =>
         /\ ~gReq.loaded /\ (gReq.fn = "segment_with_evf_sam2" => gReq.load # "ok")
              => gRet.ret = "None"
         /\ gReq.raises => gRet.ret = "None"
         /\ gReq.fn # "segment_with_owlv2" /\ gReq.mask = {} => gRet.ret = "None"
         /\ gReq.score = "low" => gRet.ret = "None"
         /\ gReq.fn = "segment_with_sam3" /\ gReq.bg_mode = "other"
              => gRet.ret = "None"

\* C16 for the four functions that do not load their model themselves.
C16_HoldsExceptForEvf ==
  gReq.fn # "segment_with_evf_sam2" => C16_ImageOrNoneNeverRaises

\* The words of a file name, cut at every "_" and ".".
WordsOf(name) == SelectSeq(name, LAMBDA t : t \notin {"_", "."})

\* A word read as a stage: upper case, PROESTTRUS taken as PROESTRUS.
StageOf(word) ==
  IF Upper(word) = "PROESTTRUS" THEN "PROESTRUS" ELSE Upper(word)

IsStage(word) ==
  StageOf(word) \in {"PROESTRUS", "ESTRUS", "METESTRUS", "DIESTRUS"}

ExpectedLabel(name, label) ==
  LET words == WordsOf(name) IN
  /\ label \in {"PROESTRUS", "ESTRUS", "METESTRUS", "DIESTRUS", "UNKNOWN"}
  /\ IF \E i \in 1..Len(words) : IsStage(words[i])
     THEN \E i \in 1..Len(words) :
            /\ IsStage(words[i]) /\ label = StageOf(words[i])
            /\ \A j \in 1..(i - 1) : ~IsStage(words[j])
     ELSE label = "UNKNOWN"

(* C17: parse_label splits the file name on '_' and '.' and returns, for   *)
(* the first part in left-to-right order whose upper-cased form (with      *)
(* PROESTTRUS rewritten to PROESTRUS) is one of PROESTRUS, ESTRUS,         *)
(* METESTRUS, DIESTRUS, that upper-cased stage; it returns UNKNOWN when no *)
(* part matches.  Its result is always one of the five folder names that   *)
(* split_dataset creates.                                                  *)
C17_ParseLabelFirstStage ==
  sPc \in {"copy", "done", "crashed"} /\ sDirs = {} =>
    \A label \in DOMAIN files_by_label :
      /\ label \in sOutDirs
      /\ \A item \in files_by_label[label] : ExpectedLabel(item[2], label)

\* A finished flat run that filed a name with two stage words, the first
\* of them misspelt, and a name without any stage word.
C17_Witness ==
  /\ sPc = "done" /\ sDirs = {}
  /\ DOMAIN files_by_label = {"PROESTRUS", "UNKNOWN"}
  /\ <<".", <<"x", "_", "proesttrus", "_", "DIESTRUS", ".", "jpg">>>>
       \in files_by_label["PROESTRUS"]
  /\ <<".", <<"mouse", ".", "jpeg">>>> \in files_by_label["UNKNOWN"]
  /\ \E c \in sTrain \cup sTest : c.label = "PROESTRUS"

(* C19: no output file is overwritten by another input of the same run: in *)
(* segment_sam3.main (output name = input stem plus the mode's extension)  *)
(* two distinct input image files of one label always produce two distinct *)
(* output files, so the number of output files equals the number of        *)
(* successfully processed inputs.                                          *)
C19_NoOutputOverwritten ==
  bScript = "segment_sam3.py" =>
    /\ \A w1 \in bWrites, w2 \in bWrites :
         w1.label = w2.label /\ w1.src # w2.src => w1.name # w2.name
    /\ Cardinality(bOut) = Cardinality(bWrites)

\* C19 for label folders in which no two image files share their stem.
C19_HoldsForDistinctStems ==
  (\A l \in BatchLabels : \A f \in bTree[l], g \in bTree[l] :
     f[1] = g[1] /\ IsImageFile(bScript, f) /\ IsImageFile(bScript, g) => f = g)
  => C19_NoOutputOverwritten

====
